---- MODULE Spec2Model ----
(***************************************************************************)
(* DeepSpeedPrecision (lightning_fabric/plugins/precision/deepspeed.py):   *)
(* the precision plugin that validates a precision value, converts input   *)
(* tensors to the matching floating-point dtype and forwards backward and  *)
(* optimizer_step to the DeepSpeed engine / optimizer.                     *)
(*                                                                         *)
(* Python values are records [t, n, s]: t is the Python type, n the        *)
(* number of an int or (whole) float, s the characters of a str or of the  *)
(* value of a PrecisionType member.  Strings are sequences of one-letter   *)
(* strings so that str(), repr() and lower() are computed, not assumed.    *)
(***************************************************************************)
EXTENDS Integers, Sequences, FiniteSets, TLC

VARIABLES pc, requested, precision, raised, last, prevOut, engine, optimizer,
          nCalls, nextId

vars == <<pc, requested, precision, raised, last, prevOut, engine, optimizer,
          nCalls, nextId>>

(* ------------------------------ bounds -------------------------------- *)

\* adapter calls made after construction
MaxCalls == 2
\* extra positional arguments handed to backward
MaxArgs == 2

(* --------------------------- Python values ---------------------------- *)

PyInt(k) == [t |-> "int", n |-> k, s |-> <<>>]
PyFloat(k) == [t |-> "float", n |-> k, s |-> <<>>]
PyStr(cs) == [t |-> "str", n |-> 0, s |-> cs]
PyEnum(cs) == [t |-> "enum", n |-> 0, s |-> cs]
PyNone == [t |-> "none", n |-> 0, s |-> <<>>]
\* an attribute that was never assigned
Unset == [t |-> "unset", n |-> 0, s |-> <<>>]

UpperLetters == <<"A", "B", "C", "D", "E", "F", "G", "H", "I", "J", "K", "L", "M",
                  "N", "O", "P", "Q", "R", "S", "T", "U", "V", "W", "X", "Y", "Z">>
LowerLetters == <<"a", "b", "c", "d", "e", "f", "g", "h", "i", "j", "k", "l", "m",
                  "n", "o", "p", "q", "r", "s", "t", "u", "v", "w", "x", "y", "z">>
DigitChars == <<"0", "1", "2", "3", "4", "5", "6", "7", "8", "9">>

\* str.lower() on one character
LowerChar(c) ==
    IF \E i \in DOMAIN UpperLetters : UpperLetters[i] = c
    THEN LowerLetters[CHOOSE i \in DOMAIN UpperLetters : UpperLetters[i] = c]
    ELSE c

\* str.lower()
Lower(cs) == [i \in DOMAIN cs |-> LowerChar(cs[i])]

RECURSIVE Digits(_)
\* decimal digits of a natural number
Digits(k) ==
    IF k < 10 THEN <<DigitChars[k + 1]>>
    ELSE Digits(k \div 10) \o <<DigitChars[(k % 10) + 1]>>

\* str(int)
IntStr(k) == IF k < 0 THEN <<"-">> \o Digits(-k) ELSE Digits(k)

\* PrecisionType member name of a value (for repr)
EnumName(cs) ==
    CASE cs = <<"1", "6">> -> <<"H", "A", "L", "F">>
      [] cs = <<"3", "2">> -> <<"F", "L", "O", "A", "T">>
      [] cs = <<"6", "4">> -> <<"F", "U", "L", "L">>
      [] cs = <<"b", "f", "1", "6">> -> <<"B", "F", "L", "O", "A", "T">>
      [] OTHER -> <<"M", "I", "X", "E", "D">>

\* str(x) as the enum's __eq__ applies it to a non-enum operand
Str(x) ==
    CASE x.t = "int" -> IntStr(x.n)
      [] x.t = "float" -> IntStr(x.n) \o <<".", "0">>
      [] x.t = "str" -> x.s
      [] x.t = "none" -> <<"N", "o", "n", "e">>
      [] OTHER -> x.s

\* repr(x), the {precision!r} of the error message
Repr(x) ==
    CASE x.t = "str" -> <<"'">> \o x.s \o <<"'">>
      [] x.t = "enum" -> <<"<PrecisionType.">> \o EnumName(x.s) \o <<": '">> \o x.s \o <<"'>">>
      [] OTHER -> Str(x)

(* ---------------------------- PrecisionType --------------------------- *)

HALF == PyEnum(<<"1", "6">>)
FLOAT == PyEnum(<<"3", "2">>)
FULL == PyEnum(<<"6", "4">>)
BFLOAT == PyEnum(<<"b", "f", "1", "6">>)
MIXED == PyEnum(<<"m", "i", "x", "e", "d">>)

\* LightningEnum.__eq__: case-insensitive comparison of the member's value
\* with the other member's value, or with str(other)
EnumEq(self, other) ==
    Lower(self.s) = Lower(IF other.t = "enum" THEN other.s ELSE Str(other))

\* hash(x); LightningEnum.__hash__ is hash(self.value.lower()).  A whole float
\* hashes like the int it equals.  The hash of a str is taken never to equal
\* the hash of a number.
Hash(x) ==
    CASE x.t \in {"int", "float"} -> [k |-> "num", n |-> x.n, s |-> <<>>]
      [] x.t = "str" -> [k |-> "str", n |-> 0, s |-> x.s]
      [] x.t = "enum" -> [k |-> "str", n |-> 0, s |-> Lower(x.s)]
      [] OTHER -> [k |-> x.t, n |-> 0, s |-> <<>>]

\* key == x for a dict key (an int or a str) and a looked-up value: a str
\* subclass overriding __eq__ gets the reflected call first, an int key
\* returns NotImplemented for a non-number and the reflected call decides
KeyEq(key, x) ==
    CASE x.t = "enum" -> EnumEq(x, key)
      [] key.t = "int" /\ x.t \in {"int", "float"} -> key.n = x.n
      [] key.t = "str" /\ x.t = "str" -> key.s = x.s
      [] OTHER -> FALSE

(* ----------------------------- constructor ---------------------------- *)

\* a supported tuple that lets 64-bit precision through
supported_precision_wrong == <<HALF, FLOAT, FULL, BFLOAT>>

\* supported_precision = (PrecisionType.HALF, PrecisionType.FLOAT, PrecisionType.BFLOAT)
supported_precision == <<HALF, FLOAT, BFLOAT>>

\* membership by identity only
InTuple_identity(x, tup) == \E i \in DOMAIN tup : tup[i] = x

\* precision in supported_precision: identity or == against each element
InTuple(x, tup) == \E i \in DOMAIN tup : tup[i] = x \/ EnumEq(tup[i], x)

\* the values a caller may hand to the constructor
PrecisionInputs ==
    { PyInt(16), PyInt(32), PyInt(64), PyInt(8),
      PyStr(<<"b", "f", "1", "6">>), PyStr(<<"B", "F", "1", "6">>),
      PyStr(<<"1", "6">>), PyStr(<<"3", "2">>), PyStr(<<"6", "4">>),
      PyStr(<<"i", "n", "t", "8">>), PyStr(<<"m", "i", "x", "e", "d">>),
      HALF, FLOAT, FULL, BFLOAT, MIXED, PyNone, PyFloat(16) }

\* str() of a generator object: its address, never its items
GeneratorStr(items) == <<"<generator object <genexpr> at 0x...>">>

\* the f-string of the ValueError: its literal text as whole pieces (the
\* backquotes around the word precision left out), the interpolated values
\* letter by letter
ErrorMessage(p) ==
    <<"precision=">> \o Repr(p) \o <<") is not supported in DeepSpeed.">>
    \o <<" precision must be one of: ">>
    \o GeneratorStr([i \in DOMAIN supported_precision |-> supported_precision[i].s])
    \o <<".">>

NoError == [type |-> "", origin |-> "", message |-> <<>>]
Error(type, origin, message) == [type |-> type, origin |-> origin, message |-> message]

(* ------------------------------- tensors ------------------------------ *)

\* A tensor holds one number: val counts halves (val = 3 is 1.5), inf marks
\* an infinity of the sign of val.  id is the identity of the tensor object.
Tensor(id, dtype, inf, val) ==
    [kind |-> "tensor", id |-> id, dtype |-> dtype, inf |-> inf, val |-> val]
NoTensor == [kind |-> "none", id |-> 0, dtype |-> "", inf |-> FALSE, val |-> 0]
\* an argument that is not a Tensor at all
NotATensor == [kind |-> "object", id |-> 0, dtype |-> "", inf |-> FALSE, val |-> 0]

DTypes == {"float16", "bfloat16", "float32", "float64"}

\* bits of the significand, the hidden bit included
SigBits(dtype) ==
    CASE dtype = "float16" -> 11
      [] dtype = "bfloat16" -> 8
      [] dtype = "float32" -> 24
      [] OTHER -> 53

\* whether the largest finite number of the dtype lies within the modelled
\* range of values, and that number in halves (float16: 65504)
Overflows(dtype, mag) == dtype = "float16" /\ mag > 2 * 65504

RECURSIVE BitLen(_)
BitLen(k) == IF k = 0 THEN 0 ELSE 1 + BitLen(k \div 2)

Abs(k) == IF k < 0 THEN -k ELSE k
Sign(k) == IF k < 0 THEN -1 ELSE 1

\* round a magnitude to p significant bits, ties to even
RoundMag(mag, p) ==
    IF BitLen(mag) <= p THEN mag
    ELSE LET q == 2 ^ (BitLen(mag) - p)
             r == mag % q
             base == mag - r
         IN  IF 2 * r > q \/ (2 * r = q /\ (base \div q) % 2 = 1)
             THEN base + q
             ELSE base

\* Tensor.to(dtype) on the number: narrowing rounds, widening is exact
Cast(t, dtype, id) ==
    LET mag == RoundMag(Abs(t.val), SigBits(dtype))
    IN  IF t.inf \/ Overflows(dtype, mag)
        THEN Tensor(id, dtype, TRUE, Sign(t.val))
        ELSE Tensor(id, dtype, FALSE, Sign(t.val) * mag)

\* numbers the caller's tensors are made from, in halves
RawValues == {3, 4099, -4099, 140001, 16777217}

\* the caller's tensors: every dtype, each number as that dtype holds it
CallerTensors ==
    { Cast(Tensor(0, "float64", FALSE, v), d, 0) : v \in RawValues, d \in DTypes }

(* ------------------------------ outcomes ------------------------------ *)

\* what a call does: returns a tensor or a value, or raises
ReturnTensor(t) == [kind |-> "return", tensor |-> t, value |-> PyNone, err |-> NoError]
ReturnValue(v) == [kind |-> "return", tensor |-> NoTensor, value |-> v, err |-> NoError]
Raise(e) == [kind |-> "raise", tensor |-> NoTensor, value |-> Unset, err |-> e]
NoOutcome == [kind |-> "none", tensor |-> NoTensor, value |-> Unset, err |-> NoError]

(* ---------------------------- convert_input --------------------------- *)

\* precision_to_type = {"bf16": torch.bfloat16, 16: torch.float16, 32: torch.float32}
precision_to_type ==
    << <<PyStr(<<"b", "f", "1", "6">>), "bfloat16">>,
       <<PyInt(16), "float16">>,
       <<PyInt(32), "float32">> >>

\* d[x]: the entries whose key has the hash of x and is x or equals x
DictFind(d, x) ==
    { i \in DOMAIN d : Hash(d[i][1]) = Hash(x) /\ (d[i][1] = x \/ KeyEq(d[i][1], x)) }

\* _convert_fp_tensor(tensor, dst_type); id is the identity a new tensor gets
convert_fp_tensor(tensor, dst_type, id) ==
    IF tensor.kind # "tensor"
    THEN Raise(Error("TypeError", "tensor", <<>>))
    ELSE IF tensor.dtype = dst_type
         THEN ReturnTensor(tensor)
         ELSE ReturnTensor(Cast(tensor, dst_type, id))

\* convert_input that also stores the key it found as self.precision
convert_input_stores_key(self_precision, data, id) ==
    LET found == DictFind(precision_to_type, self_precision)
    IN  [precision |-> IF found = {} THEN self_precision
                       ELSE precision_to_type[CHOOSE i \in found : TRUE][1],
         out |-> IF found = {}
                 THEN Raise(Error("KeyError", "adapter", Repr(self_precision)))
                 ELSE convert_fp_tensor(data,
                          precision_to_type[CHOOSE i \in found : TRUE][2], id)]

\* convert_input(self, data): self.precision after the call and the outcome
convert_input(self_precision, data, id) ==
    LET found == DictFind(precision_to_type, self_precision)
    IN  [precision |-> self_precision,
         out |-> IF found = {}
                 THEN Raise(Error("KeyError", "adapter", Repr(self_precision)))
                 ELSE convert_fp_tensor(data,
                          precision_to_type[CHOOSE i \in found : TRUE][2], id)]

(* ----------------------- engine and optimizer ------------------------- *)

\* The DeepSpeed engine and the optimizer are the caller's objects.  Each
\* records how often its routine ran and what it received; what the routine
\* does (the value it returns, the error it raises) is the caller's choice.
NewEngine == [n |-> 0, tensor |-> NoTensor, args |-> <<>>, kwargs |-> {}]
NewOptimizer == [n |-> 0, kwargs |-> {}]

EngineBehaviours ==
    { ReturnValue(PyInt(1)), Raise(Error("RuntimeError", "engine", <<>>)) }
OptimizerBehaviours ==
    { ReturnValue(PyNone), ReturnValue(PyInt(7)),
      Raise(Error("RuntimeError", "optimizer", <<>>)) }

\* model.backward(tensor, *args, **kwargs) as the engine sees it
EngineBackward(eng, tensor, args, kwargs, does) ==
    [engine |-> [n |-> eng.n + 1, tensor |-> tensor, args |-> args, kwargs |-> kwargs],
     out |-> does]

\* optimizer.step(**kwargs) as the optimizer sees it
OptimizerStep(opt, kwargs, does) ==
    [optimizer |-> [n |-> opt.n + 1, kwargs |-> kwargs], out |-> does]

(* ----------------------------- the plugin ----------------------------- *)

\* __init__(self, precision)
DeepSpeedPrecision(p) ==
    IF ~InTuple(p, supported_precision)
    THEN [pc |-> "rejected", precision |-> Unset,
          raised |-> Error("ValueError", "adapter", ErrorMessage(p))]
    ELSE [pc |-> "ready", precision |-> p, raised |-> NoError]

\* backward that forwards the tensor and the keyword arguments only
backward_drops_args(self_precision, eng, opt, tensor, args, kwargs, does) ==
    LET r == EngineBackward(eng, tensor, <<>>, kwargs, does)
    IN  [precision |-> self_precision, engine |-> r.engine, optimizer |-> opt,
         out |-> IF r.out.kind = "raise" THEN r.out ELSE ReturnValue(PyNone)]

\* optimizer_step without its return statement
optimizer_step_no_return(self_precision, eng, opt, kwargs, does) ==
    LET r == OptimizerStep(opt, kwargs, does)
    IN  [precision |-> self_precision, engine |-> eng, optimizer |-> r.optimizer,
         out |-> IF r.out.kind = "raise" THEN r.out ELSE ReturnValue(PyNone)]

\* backward(self, tensor, model, *args, **kwargs): self.precision, the
\* engine and the optimizer after the call, and the call's outcome
backward(self_precision, eng, opt, tensor, args, kwargs, does) ==
    LET r == EngineBackward(eng, tensor, args, kwargs, does)
    IN  [precision |-> self_precision, engine |-> r.engine, optimizer |-> opt,
         out |-> IF r.out.kind = "raise" THEN r.out ELSE ReturnValue(PyNone)]

\* optimizer_step(self, optimizer, **kwargs)
optimizer_step(self_precision, eng, opt, kwargs, does) ==
    LET r == OptimizerStep(opt, kwargs, does)
    IN  [precision |-> self_precision, engine |-> eng, optimizer |-> r.optimizer,
         out |-> r.out]

(* ------------------------------- calls -------------------------------- *)

Call(op, tensor, args, kwargs, does, out) ==
    [op |-> op, tensor |-> tensor, args |-> args, kwargs |-> kwargs,
     does |-> does, out |-> out]
NoCall == Call("", NoTensor, <<>>, {}, NoOutcome, NoOutcome)

Calls == nCalls.convert_input + nCalls.backward + nCalls.optimizer_step

\* extra positional arguments of backward
ArgValues == {"a", "b"}
RECURSIVE ArgLists(_)
ArgLists(k) ==
    IF k = 0 THEN {<<>>}
    ELSE ArgLists(k - 1) \cup
         { Append(a, v) : a \in { b \in ArgLists(k - 1) : Len(b) = k - 1 }, v \in ArgValues }

BackwardKwargs == { {}, {<<"retain_graph", "True">>} }
StepKwargs == { {}, {<<"closure", "fn">>} }
LossTensors == { t \in CallerTensors : t.val = 3 /\ t.dtype \in {"float16", "float32"} }

\* tensors a caller hands to convert_input: its own, the one the previous
\* call returned, or something that is no tensor
ConvertArguments ==
    CallerTensors \cup {NotATensor}
    \cup (IF last.out.tensor.kind = "tensor" THEN {last.out.tensor} ELSE {})

Init ==
    /\ pc = "new"
    /\ requested = Unset
    /\ precision = Unset
    /\ raised = NoError
    /\ last = NoCall
    /\ prevOut = NoOutcome
    /\ engine = NewEngine
    /\ optimizer = NewOptimizer
    /\ nCalls = [convert_input |-> 0, backward |-> 0, optimizer_step |-> 0]
    /\ nextId = 1

Construct ==
    /\ pc = "new"
    /\ \E p \in PrecisionInputs :
         LET r == DeepSpeedPrecision(p)
         IN  /\ requested' = p
             /\ pc' = r.pc
             /\ precision' = r.precision
             /\ raised' = r.raised
    /\ UNCHANGED <<last, prevOut, engine, optimizer, nCalls, nextId>>

ConvertInput ==
    /\ pc = "ready"
    /\ Calls < MaxCalls
    /\ \E data \in ConvertArguments :
         LET r == convert_input(precision, data, nextId)
         IN  /\ last' = Call("convert_input", data, <<>>, {}, NoOutcome, r.out)
             /\ precision' = r.precision
             /\ nextId' = IF r.out.tensor.kind = "tensor" /\ r.out.tensor.id = nextId
                          THEN nextId + 1 ELSE nextId
    /\ prevOut' = last.out
    /\ nCalls' = [nCalls EXCEPT !.convert_input = @ + 1]
    /\ UNCHANGED <<pc, requested, raised, engine, optimizer>>

Backward ==
    /\ pc = "ready"
    /\ Calls < MaxCalls
    /\ \E tensor \in LossTensors, args \in ArgLists(MaxArgs),
          kwargs \in BackwardKwargs, does \in EngineBehaviours :
         LET r == backward(precision, engine, optimizer, tensor, args, kwargs, does)
         IN  /\ last' = Call("backward", tensor, args, kwargs, does, r.out)
             /\ precision' = r.precision
             /\ engine' = r.engine
             /\ optimizer' = r.optimizer
    /\ prevOut' = last.out
    /\ nCalls' = [nCalls EXCEPT !.backward = @ + 1]
    /\ UNCHANGED <<pc, requested, raised, nextId>>

Step ==
    /\ pc = "ready"
    /\ Calls < MaxCalls
    /\ \E kwargs \in StepKwargs, does \in OptimizerBehaviours :
         LET r == optimizer_step(precision, engine, optimizer, kwargs, does)
         IN  /\ last' = Call("optimizer_step", NoTensor, <<>>, kwargs, does, r.out)
             /\ precision' = r.precision
             /\ engine' = r.engine
             /\ optimizer' = r.optimizer
    /\ prevOut' = last.out
    /\ nCalls' = [nCalls EXCEPT !.optimizer_step = @ + 1]
    /\ UNCHANGED <<pc, requested, raised, nextId>>

Next == Construct \/ ConvertInput \/ Backward \/ Step

Spec == Init /\ [][Next]_vars

(* ------------------------------ properties ---------------------------- *)

\* seq holds sub as a run of consecutive elements
Contains(seq, sub) ==
    \E i \in 0 .. (Len(seq) - Len(sub)) : SubSeq(seq, i + 1, i + Len(sub)) = sub

\* the representations of the three supported modes: the ints 16 and 32, the
\* strings "16", "32" and "bf16" in any case, the three enum members
IsSupportedForm(x) ==
    \/ x \in {PyInt(16), PyInt(32), HALF, FLOAT, BFLOAT}
    \/ /\ x.t = "str"
       /\ Lower(x.s) \in { <<"1", "6">>, <<"3", "2">>, <<"b", "f", "1", "6">> }

\* the dtype the fixed mapping assigns to the mode a supported form denotes
ModeDType(x) ==
    LET v == Lower(IF x.t \in {"str", "enum"} THEN x.s ELSE Str(x))
    IN  CASE v = <<"b", "f", "1", "6">> -> "bfloat16"
          [] v = <<"1", "6">> -> "float16"
          [] OTHER -> "float32"

\* C1: a requested precision that is no form of half, full or bfloat16 makes
\* construction fail with the error whose message names the rejected value,
\* and no precision is stored.
C1_UnsupportedRejected ==
    (pc # "new" /\ ~IsSupportedForm(requested)) =>
        /\ pc = "rejected"
        /\ raised.type = "ValueError"
        /\ Contains(raised.message, Repr(requested))
        /\ precision = Unset

C1_Witness ==
    /\ pc = "rejected"
    /\ requested = PyInt(64)
    /\ Contains(raised.message, <<"6", "4">>)

\* C2: every form of half, full or bfloat16 is accepted, and the adapter
\* stores exactly the value it was given.
C2_SupportedStored ==
    (pc # "new" /\ IsSupportedForm(requested)) =>
        /\ pc = "ready"
        /\ precision = requested
        /\ raised = NoError

C2_Witness ==
    /\ pc = "ready"
    /\ requested = PyInt(16)
    /\ precision = PyInt(16)

\* C3: in every state of a constructed adapter, whatever calls were made, the
\* stored precision is a supported form and is the value validated at
\* construction.
C3_PrecisionImmutable ==
    pc = "ready" => (precision = requested /\ IsSupportedForm(precision))

C3_Witness ==
    /\ pc = "ready"
    /\ Calls = MaxCalls
    /\ nCalls.convert_input > 0
    /\ last.op # "convert_input"
    /\ precision = BFLOAT

\* C4: convert_input on a tensor returns a tensor of the dtype the mapping
\* assigns to the adapter's mode, whatever the dtype of the input.
C4_ConvertedDType ==
    (last.op = "convert_input" /\ last.tensor.kind = "tensor") =>
        /\ last.out.kind = "return"
        /\ last.out.tensor.kind = "tensor"
        /\ last.out.tensor.dtype = ModeDType(requested)

\* C4 on the adapters whose stored precision the table finds
C4_OnFoundPrecision ==
    (last.op = "convert_input" /\ last.tensor.kind = "tensor"
        /\ DictFind(precision_to_type, precision) # {}) =>
        /\ last.out.kind = "return"
        /\ last.out.tensor.kind = "tensor"
        /\ last.out.tensor.dtype = ModeDType(requested)

\* C5: convert_input is idempotent: converting what convert_input returned
\* returns it again, and a tensor already of the dtype of the adapter's mode
\* is returned itself, no new tensor made.
C5_ConvertIdempotent ==
    /\ (last.op = "convert_input" /\ last.tensor.kind = "tensor"
          /\ prevOut.kind = "return" /\ prevOut.tensor = last.tensor) =>
            last.out = prevOut
    /\ (last.op = "convert_input" /\ last.tensor.kind = "tensor"
          /\ last.tensor.dtype = ModeDType(requested)) =>
            last.out = ReturnTensor(last.tensor)

\* C5 on the adapters whose stored precision the table finds
C5_OnFoundPrecision ==
    DictFind(precision_to_type, precision) # {} => C5_ConvertIdempotent

\* C6: backward runs the engine's backward once per call, with the same
\* tensor and the same positional and keyword arguments in order, runs no
\* optimizer step and returns None.
C6_BackwardDelegates ==
    /\ engine.n = nCalls.backward
    /\ last.op = "backward" =>
        /\ engine.tensor = last.tensor
        /\ engine.args = last.args
        /\ engine.kwargs = last.kwargs
        /\ optimizer.n = nCalls.optimizer_step
        /\ last.does.kind = "return" => last.out = ReturnValue(PyNone)

C6_Witness ==
    /\ last.op = "backward"
    /\ Len(last.args) = 2
    /\ last.args[1] # last.args[2]
    /\ last.kwargs # {}
    /\ last.does = ReturnValue(PyInt(1))
    /\ engine.args = last.args

\* C7: optimizer_step runs the optimizer's step once per call with the same
\* keyword arguments, returns exactly what step returned and makes no engine
\* call.
C7_StepDelegates ==
    /\ optimizer.n = nCalls.optimizer_step
    /\ last.op = "optimizer_step" =>
        /\ optimizer.kwargs = last.kwargs
        /\ engine.n = nCalls.backward
        /\ last.does.kind = "return" => last.out = last.does

C7_Witness ==
    /\ last.op = "optimizer_step"
    /\ last.kwargs # {}
    /\ last.out = ReturnValue(PyInt(7))
    /\ optimizer.n = 1

\* C8: the error for an unsupported precision carries the rejected value and
\* the values of the three supported modes.
C8_ErrorListsSupported ==
    pc = "rejected" =>
        /\ Contains(raised.message, Repr(requested))
        /\ \A i \in DOMAIN supported_precision :
              Contains(raised.message, supported_precision[i].s)

\* C9: a failure of the engine's backward, of the optimizer's step or of the
\* tensor conversion is the failure of the adapter's call, unchanged; the
\* adapter raises no error of its own in these calls and its stored precision
\* is unchanged.
C9_ErrorsPropagate ==
    /\ last.does.kind = "raise" => last.out = last.does
    /\ last.out.kind = "raise" =>
        /\ last.out.err.origin \in {"engine", "optimizer", "tensor"}
        /\ precision = requested

\* C9 on the adapters whose stored precision the table finds
C9_OnFoundPrecision ==
    DictFind(precision_to_type, precision) # {} => C9_ErrorsPropagate

\* C10: the lookup in convert_input finds an entry for every precision the
\* constructor accepted: convert_input never fails with a missing key.
C10_LookupTotal ==
    last.op = "convert_input" =>
        ~(last.out.kind = "raise" /\ last.out.err.type = "KeyError")
====
